---------------------------- MODULE Spec2Model ----------------------------
(***************************************************************************)
(* TheReposterminator (src/TheReposterminator/bot.py): the repost bot's    *)
(* run loop, its direct-message handling, the per-community scans and the  *)
(* submission processor with its similarity matcher, as a state machine.   *)
(*                                                                         *)
(* A 64-bit hash is the set of its bit positions (0..63) that are 1:       *)
(* a ^ b is the symmetric difference, bin(x).count('1') the cardinality.   *)
(***************************************************************************)
EXTENDS Integers, Sequences, FiniteSets, TLC

VARIABLES
    pc,                      \* position of run(): "while", "for", "scan_new", "scan", "crashed"
    initial_dm_check,        \* run()'s local flag
    subreddits,              \* self.subreddits: list of SubData
    iter,                    \* items the list iterator of `for sub in self.subreddits` has consumed
    sub,                     \* the loop variable of run(), a SubData (or NoSub)
    window,                  \* scan_new_sub: index of the time filter being listed
    tbl_subreddits,          \* table subreddits(name, indexed), in scan order
    media_storage,           \* table media_storage(hash, id, subname), in insertion order
    indexed_submissions,     \* table indexed_submissions(id, subname, ..., processed)
    indexed_submission_ids,  \* self.indexed_submission_ids
    inbox,                   \* unread direct messages, oldest first
    received,                \* number of messages delivered so far
    reports,                 \* platform side: the report actions issued, in order
    call,                    \* the last handle_submission call: arguments and path taken
    cmp,                     \* matcher check: [a, b, done, similarity, match]
    visited,                 \* the communities run() has taken from the list in this pass
    drained,                 \* the messages the last step's handle_dms() handled
    restarts                 \* how often the process was started again after it died

vars == <<pc, initial_dm_check, subreddits, iter, sub, window, tbl_subreddits,
          media_storage, indexed_submissions, indexed_submission_ids, inbox,
          received, reports, call, cmp, visited, drained, restarts>>

---------------------------------------------------------------------------
(* Program constants *)

THRESHOLD == 88

HashBits == 64

Percent == 100

MaxReportMatches == 10

TimeFilters == <<"all", "year", "month">>

(* Bounds of the model *)

\* fingerprints of community "a" already in the store when the bot starts
MaxPrior == 11

\* direct messages delivered during a run
MaxMsgs == 3

\* restarts of the process after it died
MaxRestarts == 1

---------------------------------------------------------------------------
(* Hashes and the similarity matcher (get_matches) *)

\* the hash whose bits lo .. lo+n-1 are 1
HashRun(lo, n) == lo .. (lo + n - 1)

\* media_data.hash ^ int(post.hash)
Xor(a, b) == (a \ b) \cup (b \ a)

\* bin(x).count('1')
PopCount(x) == Cardinality(x)

SimilarityOff(a, b) == ((HashBits - 1 - PopCount(Xor(a, b))) * Percent) \div HashBits

\* int(((64 - bin(a ^ b).count('1')) * 100.0) / 64.0): the quotient is >= 0,
\* so int() truncates to the floor
Similarity(a, b) == ((HashBits - PopCount(Xor(a, b))) * Percent) \div HashBits

IsMatchLoose(compared) == compared >= THRESHOLD - 1

\* if compared > THRESHOLD
IsMatch(compared) == compared > THRESHOLD

---------------------------------------------------------------------------
(* The platform's content: communities, submissions, messages *)

Subnames == {"a", "b"}

\* submissions that the listings can yield
Submissions == 1 .. 5

\* submission.subreddit.display_name
SubnameOf(s) == IF s <= 4 THEN "a" ELSE "b"

\* submission.is_self
IsSelf(s) == s = 4

\* whether the lowered url contains '.jpg', '.png' or '.jpeg' (3 is a .gif link)
HasImageExt(s) == s # 3

HashA == HashRun(0, 20)

HashNear == HashRun(0, 27)

HashFar == HashRun(0, 35)

\* diff_hash(media): 1, 2 and 5 are the same picture
HashOf(s) == HashA

NoSub == [subname |-> "", indexed |-> FALSE]

NoCall == [id |-> 0, report |-> FALSE, path |-> "none", matches |-> <<>>,
           invoked |-> FALSE, hidden |-> FALSE, escaped |-> FALSE]

\* the direct messages the platform can deliver
Messages ==
    [kind : {"invite", "removal"}, subreddit : Subnames]
        \cup {[kind |-> "other", subreddit |-> ""]}

---------------------------------------------------------------------------
(* Community bookkeeping: update_subs, accept_invite, handle_mod_removal,  *)
(* handle_dms                                                              *)

\* SELECT * FROM subreddits, each row made a SubData
update_subs(tbl) == [i \in DOMAIN tbl |-> [subname |-> tbl[i].name, indexed |-> tbl[i].indexed]]

HasRow(tbl, name) == \E i \in DOMAIN tbl : tbl[i].name = name

\* the name column of the subreddits table is UNIQUE: the table is created
\* outside bot.py, the constraint is the one the specification gives
SubredditNameUnique == TRUE

InsertSubredditAlways(tbl, name) == Append(tbl, [name |-> name, indexed |-> FALSE])

\* INSERT INTO subreddits VALUES(name, FALSE) ON CONFLICT DO NOTHING
InsertSubreddit(tbl, name) ==
    IF SubredditNameUnique /\ HasRow(tbl, name)
    THEN tbl
    ELSE Append(tbl, [name |-> name, indexed |-> FALSE])

\* DELETE FROM subreddits WHERE name = ...
DeleteSubreddit(tbl, name) == SelectSeq(tbl, LAMBDA r : r.name # name)

\* accept_invite(msg): the table after it
accept_invite(tbl, msg) == InsertSubreddit(tbl, msg.subreddit)

\* handle_mod_removal(msg): the table after it
handle_mod_removal(tbl, msg) == DeleteSubreddit(tbl, msg.subreddit)

RECURSIVE handle_dms(_, _)
\* handle_dms(): the table after every unread message was handled, oldest first
handle_dms(tbl, msgs) ==
    IF msgs = <<>> THEN tbl
    ELSE LET msg == Head(msgs)
             next == IF msg.kind = "invite" THEN accept_invite(tbl, msg)
                     ELSE IF msg.kind = "removal" /\ msg.subreddit # ""
                          THEN handle_mod_removal(tbl, msg)
                     ELSE tbl
         IN  handle_dms(next, Tail(msgs))

---------------------------------------------------------------------------
(* The submission processor: fetch_media, get_matches, do_report,          *)
(* handle_submission                                                       *)

\* what can go wrong in the try block of one call: nothing, requests.get
\* raises, the image is unidentified, diff_hash raises, the SELECT raises,
\* do_report raises before or after submission.report, hiding the reply
\* raises, the INSERT into media_storage raises
Faults == {"none", "fetch", "decode", "hash", "select", "lookup", "reply", "hide",
           "insert_media"}

\* fetch_media(img_url): False ("noimage"), an image, or an exception
fetch_media(s, fault) ==
    IF ~HasImageExt(s) THEN "noimage"
    ELSE IF fault = "fetch" THEN "raise"
    ELSE IF fault = "decode" THEN "noimage"
    ELSE "image"

SelectMediaAll(tbl, subname) == tbl

\* SELECT * FROM media_storage WHERE subname = ...
SelectMedia(tbl, subname) == SelectSeq(tbl, LAMBDA r : r.subname = subname)

\* Match(*post, compared)
MatchOf(h, post) ==
    [hash |-> post.hash, id |-> post.id, subname |-> post.subname,
     similarity |-> Similarity(h, post.hash)]

\* [*get_matches()] over the fetched rows
get_matches(h, rows) ==
    SelectSeq([i \in DOMAIN rows |-> MatchOf(h, rows[i])], LAMBDA m : IsMatch(m.similarity))

ShouldReportAny(report, matches) == report /\ matches # <<>>

\* if report: if (matches := [*get_matches()]) and len(matches) <= 10
ShouldReport(report, matches) ==
    report /\ matches # <<>> /\ Len(matches) <= MaxReportMatches

\* SELECT * FROM indexed_submissions WHERE id = ... ; fetchone() is None when no row
HasSubmissionRow(tbl, id) == \E i \in DOMAIN tbl : tbl[i].id = id

do_reportHideRaises(s, matches, fault) ==
    IF \E i \in DOMAIN matches : ~HasSubmissionRow(indexed_submissions, matches[i].id)
       THEN [raised |-> TRUE, reports |-> reports, hidden |-> FALSE]
    ELSE IF fault = "lookup"
       THEN [raised |-> TRUE, reports |-> reports, hidden |-> FALSE]
    ELSE IF fault = "reply"
       THEN [raised |-> TRUE, hidden |-> FALSE,
             reports |-> Append(reports, [id |-> s, n |-> Len(matches), replied |-> FALSE])]
    ELSE [raised |-> fault = "hide", hidden |-> fault # "hide",
          reports |-> Append(reports, [id |-> s, n |-> Len(matches), replied |-> TRUE])]

\* do_report(submission, matches): whether it raised, the report actions after
\* it, and whether the submission was hidden (suppress(Exception) around hide)
do_report(s, matches, fault) ==
    IF \E i \in DOMAIN matches : ~HasSubmissionRow(indexed_submissions, matches[i].id)
       THEN [raised |-> TRUE, reports |-> reports, hidden |-> FALSE]
    ELSE IF fault = "lookup"
       THEN [raised |-> TRUE, reports |-> reports, hidden |-> FALSE]
    ELSE IF fault = "reply"
       THEN [raised |-> TRUE, hidden |-> FALSE,
             reports |-> Append(reports, [id |-> s, n |-> Len(matches), replied |-> FALSE])]
    ELSE [raised |-> FALSE, hidden |-> fault # "hide",
          reports |-> Append(reports, [id |-> s, n |-> Len(matches), replied |-> TRUE])]

InsertMediaUnlessMatched(tbl, s, matches) ==
    IF matches # <<>> THEN tbl
    ELSE Append(tbl, [hash |-> HashOf(s), id |-> s, subname |-> SubnameOf(s)])

\* INSERT INTO media_storage VALUES(hash, id, subname)
InsertMedia(tbl, s, matches) ==
    Append(tbl, [hash |-> HashOf(s), id |-> s, subname |-> SubnameOf(s)])

Caught(matches, invoked, reps) ==
    [path |-> "caught", media |-> media_storage, reports |-> reps,
     matches |-> matches, invoked |-> invoked, hidden |-> FALSE]

\* the try block of handle_submission: the path taken ("noimage": the return of
\* line 136, "ok": processed = True was reached, "caught": the except clause)
\* and the side effects
TryBlock(s, report, fault) ==
    LET media == fetch_media(s, fault)
        rows == SelectMedia(media_storage, SubnameOf(s))
        matches == IF report THEN get_matches(HashOf(s), rows) ELSE <<>>
        invoked == ShouldReport(report, matches)
        rep == IF invoked THEN do_report(s, matches, fault)
               ELSE [raised |-> FALSE, reports |-> reports, hidden |-> FALSE]
    IN  IF media = "noimage"
           THEN [path |-> "noimage", media |-> media_storage, reports |-> reports,
                 matches |-> <<>>, invoked |-> FALSE, hidden |-> FALSE]
        ELSE IF media = "raise" \/ fault \in {"hash", "select"}
           THEN Caught(<<>>, FALSE, reports)
        ELSE IF rep.raised
           THEN Caught(matches, invoked, rep.reports)
        ELSE IF fault = "insert_media"
           THEN [Caught(matches, invoked, rep.reports) EXCEPT !.hidden = rep.hidden]
        ELSE [path |-> "ok", media |-> InsertMedia(media_storage, s, matches),
              reports |-> rep.reports, matches |-> matches, invoked |-> invoked,
              hidden |-> rep.hidden]

SubmissionRowProcessed(s, processed) ==
    [id |-> s, subname |-> SubnameOf(s), processed |-> TRUE]

\* the row of indexed_submissions written for a submission
SubmissionRow(s, processed) == [id |-> s, subname |-> SubnameOf(s), processed |-> processed]

\* if submission.is_self or (submission.id in self.indexed_submission_ids): return
AlreadyKnown(s) == IsSelf(s) \/ s \in indexed_submission_ids

DedupAddNothing(ids, s) == ids

\* self.indexed_submission_ids.add(submission.id)
DedupAdd(ids, s) == ids \cup {s}

\* handle_submission(submission, report=...): rec_ok says whether the INSERT
\* into indexed_submissions succeeds; when it raises, the exception leaves
\* handle_submission, the scan and run()
handle_submission(s, report, fault, rec_ok) ==
    IF AlreadyKnown(s)
    THEN /\ call' = [NoCall EXCEPT !.id = s, !.report = report, !.path = "skip"]
         /\ UNCHANGED <<pc, media_storage, indexed_submissions, indexed_submission_ids, reports>>
    ELSE LET r == TryBlock(s, report, fault)
         IN  IF r.path = "noimage"
             THEN /\ call' = [NoCall EXCEPT !.id = s, !.report = report, !.path = "noimage"]
                  /\ UNCHANGED <<pc, media_storage, indexed_submissions,
                                 indexed_submission_ids, reports>>
             ELSE /\ media_storage' = r.media
                  /\ reports' = r.reports
                  /\ call' = [id |-> s, report |-> report, path |-> r.path,
                              matches |-> r.matches, invoked |-> r.invoked,
                              hidden |-> r.hidden, escaped |-> ~rec_ok]
                  /\ IF rec_ok
                     THEN /\ indexed_submissions' =
                                 Append(indexed_submissions, SubmissionRow(s, r.path = "ok"))
                          /\ indexed_submission_ids' = DedupAdd(indexed_submission_ids, s)
                          /\ pc' = pc
                     ELSE /\ pc' = "crashed"
                          /\ UNCHANGED <<indexed_submissions, indexed_submission_ids>>

---------------------------------------------------------------------------
(* The run loop: run, scan_new_sub, scan_submissions                       *)

store == <<media_storage, indexed_submissions, indexed_submission_ids, reports>>

\* a step that is no call of handle_submission
NoCallStep == call' = NoCall /\ UNCHANGED store

\* whether handle_dms() reaches accept_invite or handle_mod_removal, which
\* both end with update_subs()
Refreshes(msgs) == \E i \in DOMAIN msgs : msgs[i].kind \in {"invite", "removal"}

\* self.handle_dms() as run() calls it: the table and the list after it
DrainInbox ==
    /\ tbl_subreddits' = handle_dms(tbl_subreddits, inbox)
    /\ subreddits' = IF Refreshes(inbox) THEN update_subs(tbl_subreddits') ELSE subreddits
    /\ inbox' = <<>>
    /\ drained' = inbox

\* the platform delivers a direct message. Only handle_dms reads the inbox,
\* so an arrival during a scan is the arrival at the next `for`
Receive ==
    /\ pc \in {"while", "for"}
    /\ received < MaxMsgs
    /\ \E msg \in Messages : inbox' = Append(inbox, msg)
    /\ received' = received + 1
    /\ UNCHANGED <<pc, initial_dm_check, subreddits, iter, sub, window, tbl_subreddits, cmp,
                   visited, restarts>>
    /\ drained' = <<>>
    /\ NoCallStep

\* the top of `while True`: the initial check of the inbox, then the list
\* iterator of the for statement is created
RunWhile ==
    /\ pc = "while"
    /\ IF initial_dm_check /\ Len(subreddits) < 1
       THEN DrainInbox /\ initial_dm_check' = FALSE
       ELSE /\ drained' = <<>>
            /\ UNCHANGED <<tbl_subreddits, subreddits, inbox, initial_dm_check>>
    /\ iter' = 0
    /\ visited' = <<>>
    /\ pc' = "for"
    /\ UNCHANGED <<sub, window, received, cmp, restarts>>
    /\ NoCallStep

\* if not sub.indexed: scan_new_sub(sub) ... if sub.indexed: scan_submissions(sub)
NextPc(s) == IF ~s.indexed THEN "scan_new" ELSE "scan"

\* one step of `for sub in self.subreddits`: the iterator yields the next item
\* of the list as it is now, or ends the pass; the body begins with handle_dms()
RunFor ==
    /\ pc = "for"
    /\ IF iter < Len(subreddits)
       THEN /\ sub' = subreddits[iter + 1]
            /\ iter' = iter + 1
            /\ visited' = Append(visited, sub'.subname)
            /\ DrainInbox
            /\ pc' = NextPc(sub')
            /\ window' = IF pc' = "scan_new" THEN 1 ELSE 0
       ELSE /\ pc' = "while"
            /\ drained' = <<>>
            /\ UNCHANGED <<sub, iter, window, tbl_subreddits, subreddits, inbox, visited>>
    /\ UNCHANGED <<initial_dm_check, received, cmp, restarts>>
    /\ NoCallStep

\* the submissions a listing of r/subname can yield
Listing(subname) == {s \in Submissions : SubnameOf(s) = subname}

\* scan_new_sub: one submission of top(time_filter=...) handled, report=False
ScanNewSubmission ==
    /\ pc = "scan_new"
    /\ \E s \in Listing(sub.subname), fault \in Faults, rec_ok \in BOOLEAN :
           handle_submission(s, FALSE, fault, rec_ok)
    /\ UNCHANGED <<initial_dm_check, subreddits, iter, sub, window, tbl_subreddits,
                   inbox, received, cmp, visited, restarts>>
    /\ drained' = <<>>

\* scan_new_sub: a listing is exhausted, the next time filter begins
ScanNewNextFilter ==
    /\ pc = "scan_new"
    /\ window < Len(TimeFilters)
    /\ window' = window + 1
    /\ UNCHANGED <<pc, initial_dm_check, subreddits, iter, sub, tbl_subreddits,
                   inbox, received, cmp, visited, restarts>>
    /\ drained' = <<>>
    /\ NoCallStep

SetIndexedNothing(tbl, name, moved) == tbl

\* UPDATE subreddits SET indexed=TRUE WHERE name = ... ; the SELECT of
\* update_subs has no ORDER BY, and the updated row is a new row version that
\* a scan may find in its old place or after the other rows
SetIndexed(tbl, name, moved) ==
    IF moved /\ HasRow(tbl, name)
    THEN Append(DeleteSubreddit(tbl, name), [name |-> name, indexed |-> TRUE])
    ELSE [i \in DOMAIN tbl |-> IF tbl[i].name = name THEN [tbl[i] EXCEPT !.indexed = TRUE]
                               ELSE tbl[i]]

\* scan_new_sub: the last listing is exhausted; the flag is set, the list is
\* refreshed, and run() goes on to `if sub.indexed` with the sub it holds
ScanNewFinish ==
    /\ pc = "scan_new"
    /\ window = Len(TimeFilters)
    /\ \E moved \in BOOLEAN : tbl_subreddits' = SetIndexed(tbl_subreddits, sub.subname, moved)
    /\ subreddits' = update_subs(tbl_subreddits')
    /\ pc' = IF sub.indexed THEN "scan" ELSE "for"
    /\ window' = 0
    /\ UNCHANGED <<initial_dm_check, iter, sub, inbox, received, cmp, visited, restarts>>
    /\ drained' = <<>>
    /\ NoCallStep

\* scan_submissions: one submission of new() handled, report=True
ScanSubmission ==
    /\ pc = "scan"
    /\ \E s \in Listing(sub.subname), fault \in Faults, rec_ok \in BOOLEAN :
           handle_submission(s, TRUE, fault, rec_ok)
    /\ UNCHANGED <<initial_dm_check, subreddits, iter, sub, window, tbl_subreddits,
                   inbox, received, cmp, visited, restarts>>
    /\ drained' = <<>>

\* scan_submissions: the listing is exhausted
ScanDone ==
    /\ pc = "scan"
    /\ pc' = "for"
    /\ UNCHANGED <<initial_dm_check, subreddits, iter, sub, window, tbl_subreddits,
                   inbox, received, cmp, visited, restarts>>
    /\ drained' = <<>>
    /\ NoCallStep

---------------------------------------------------------------------------
(* Specifications *)

NoCmp == [a |-> {}, b |-> {}, done |-> FALSE, similarity |-> 0, match |-> FALSE]

\* the store an earlier run left: n processed submissions of community "a",
\* all of one picture with hash h
PriorMedia(n, h) == [i \in 1 .. n |-> [hash |-> h, id |-> 100 + i, subname |-> "a"]]

PriorSubmissions(n) == [i \in 1 .. n |-> [id |-> 100 + i, subname |-> "a", processed |-> TRUE]]

\* BotClient(): setup_connections loads the ids of indexed_submissions,
\* update_subs the (here empty) table of subreddits
Init ==
    /\ pc = "while"
    /\ initial_dm_check = TRUE
    /\ tbl_subreddits = <<>>
    /\ subreddits = update_subs(tbl_subreddits)
    /\ iter = 0
    /\ sub = NoSub
    /\ window = 0
    /\ media_storage = <<>>
    /\ indexed_submissions = <<>>
    /\ indexed_submission_ids = {indexed_submissions[i].id : i \in DOMAIN indexed_submissions}
    /\ inbox = <<>>
    /\ received = 0
    /\ reports = <<>>
    /\ call = NoCall
    /\ cmp = NoCmp
    /\ visited = <<>>
    /\ drained = <<>>
    /\ restarts = 0

Next ==
    \/ Receive
    \/ RunWhile
    \/ RunFor
    \/ ScanNewSubmission
    \/ ScanNewNextFilter
    \/ ScanNewFinish
    \/ ScanSubmission
    \/ ScanDone

Spec == Init /\ [][Next]_vars

\* the loop while no direct message arrives
NextQuiet ==
    \/ RunWhile
    \/ RunFor
    \/ ScanNewSubmission
    \/ ScanNewNextFilter
    \/ ScanNewFinish
    \/ ScanSubmission
    \/ ScanDone

\* BotClient() started on the database an earlier run left: community "a" is
\* tracked, backfilled or not, and n of its submissions are indexed, all of
\* one picture that is near to (HashNear) or far from (HashFar) picture A
InitRestarted ==
    /\ pc = "while"
    /\ initial_dm_check = TRUE
    /\ \E indexed \in BOOLEAN : tbl_subreddits = <<[name |-> "a", indexed |-> indexed]>>
    /\ subreddits = update_subs(tbl_subreddits)
    /\ iter = 0
    /\ sub = NoSub
    /\ window = 0
    /\ \E n \in 0 .. MaxPrior, h \in {HashNear, HashFar} :
          /\ media_storage = PriorMedia(n, h)
          /\ indexed_submissions = PriorSubmissions(n)
    /\ indexed_submission_ids = {indexed_submissions[i].id : i \in DOMAIN indexed_submissions}
    /\ inbox = <<>>
    /\ received = 0
    /\ reports = <<>>
    /\ call = NoCall
    /\ cmp = NoCmp
    /\ visited = <<>>
    /\ drained = <<>>
    /\ restarts = 0

SpecRestarted == InitRestarted /\ [][NextQuiet]_vars

\* the loop keeps running: every listing ends, and run() takes its next step
FairSpec ==
    /\ Spec
    /\ WF_vars(RunWhile)
    /\ WF_vars(RunFor)
    /\ WF_vars(ScanNewNextFilter)
    /\ WF_vars(ScanNewFinish)
    /\ WF_vars(ScanDone)

\* the process died of the exception that left run() and is started again:
\* BotClient() connects to the same database, setup_connections loads the
\* dedup set from indexed_submissions and update_subs the list
Restart ==
    /\ pc = "crashed"
    /\ restarts < MaxRestarts
    /\ restarts' = restarts + 1
    /\ pc' = "while"
    /\ initial_dm_check' = TRUE
    /\ subreddits' = update_subs(tbl_subreddits)
    /\ indexed_submission_ids' = {indexed_submissions[i].id : i \in DOMAIN indexed_submissions}
    /\ iter' = 0
    /\ sub' = NoSub
    /\ window' = 0
    /\ visited' = <<>>
    /\ drained' = <<>>
    /\ UNCHANGED <<tbl_subreddits, media_storage, indexed_submissions, inbox, received,
                   reports, cmp>>
    /\ NoCallStep

NextRestarting ==
    \/ NextQuiet
    \/ Restart

\* the loop on an existing database, started again after it died
SpecRestarting == InitRestarted /\ [][NextRestarting]_vars

\* hashes to compare: runs of 1 bits of every length, from bit 0 or bit 5
HashPool == {HashRun(lo, n) : lo \in {0, 5}, n \in 0 .. HashBits} \cap SUBSET (0 .. HashBits - 1)

\* a candidate hash a and one stored row with hash b
MatchInit ==
    /\ pc = "while"
    /\ initial_dm_check = TRUE
    /\ tbl_subreddits = <<>>
    /\ subreddits = <<>>
    /\ iter = 0
    /\ sub = NoSub
    /\ window = 0
    /\ media_storage = <<>>
    /\ indexed_submissions = <<>>
    /\ indexed_submission_ids = {}
    /\ inbox = <<>>
    /\ received = 0
    /\ reports = <<>>
    /\ call = NoCall
    /\ cmp \in [a : HashPool, b : HashPool, done : {FALSE}, similarity : {0}, match : {FALSE}]
    /\ visited = <<>>
    /\ drained = <<>>
    /\ restarts = 0

\* get_matches() run on the one stored row
Compare ==
    /\ ~cmp.done
    /\ LET found == get_matches(cmp.a, <<[hash |-> cmp.b, id |-> 1, subname |-> "a"]>>)
       IN  cmp' = [cmp EXCEPT !.done = TRUE,
                              !.similarity = Similarity(cmp.a, cmp.b),
                              !.match = found # <<>>]
    /\ UNCHANGED <<pc, initial_dm_check, subreddits, iter, sub, window, tbl_subreddits,
                   media_storage, indexed_submissions, indexed_submission_ids, inbox,
                   received, reports, call, visited, drained, restarts>>

SpecMatch == MatchInit /\ [][Compare]_vars

---------------------------------------------------------------------------
(* What the claims speak of *)

\* the number of rows of a table with this (submission) id
CountIn(tbl, id) == Cardinality({i \in DOMAIN tbl : tbl[i].id = id})

RowCount(id) == CountIn(indexed_submissions, id)

FingerprintCount(id) == CountIn(media_storage, id)

HasRecord(id, processed) ==
    \E i \in DOMAIN indexed_submissions :
        indexed_submissions[i].id = id /\ indexed_submissions[i].processed = processed

Tracked(name) == HasRow(tbl_subreddits, name)

\* the table holds a row of the community with this flag
FlagIn(tbl, name, indexed) ==
    \E i \in DOMAIN tbl : tbl[i].name = name /\ tbl[i].indexed = indexed

Backfilling(name) == FlagIn(tbl_subreddits, name, FALSE)

Indexed(name) == FlagIn(tbl_subreddits, name, TRUE)

\* the last step was a call of handle_submission that returned
Returned == call.path # "none" /\ ~call.escaped

\* the number of bit positions in which two hashes differ
Distance(a, b) == Cardinality((a \cup b) \ (a \cap b))

\* the stored fingerprints of the community of s that match s: similarity
\* floor((64 - distance) * 100 / 64) above 88
MatchingRows(tbl, s) ==
    {i \in DOMAIN tbl :
        /\ tbl[i].subname = SubnameOf(s)
        /\ ((HashBits - Distance(HashOf(s), tbl[i].hash)) * Percent) \div HashBits > THRESHOLD}

\* the last step's call issued a report action
Emitted ==
    /\ call.invoked
    /\ reports # <<>>
    /\ reports[Len(reports)].id = call.id

---------------------------------------------------------------------------
(* Claims *)

\* C1: once handle_submission has returned for a submission that is no text
\* post, the submissions table holds exactly one row with its id, and a call
\* for an id that already has a row changes nothing (no store write, no
\* report, dedup set unchanged).
C1_IdempotentOneRow ==
    [][(call'.path # "none" /\ ~call'.escaped /\ ~IsSelf(call'.id)) =>
          /\ CountIn(indexed_submissions', call'.id) = 1
          /\ (CountIn(indexed_submissions, call'.id) >= 1 => store' = store)]_vars

\* C2: when handle_submission has returned for a not yet known submission
\* that is no text post and whose media is no image (fetch_media gave False),
\* the store holds a SubmissionRecord of it with processed = false and no
\* fingerprint row, and its id is in the dedup set.
C2_NonImageRecorded ==
    call.path = "noimage" =>
        /\ HasRecord(call.id, FALSE)
        /\ FingerprintCount(call.id) = 0
        /\ call.id \in indexed_submission_ids

\* C3: no report action is issued for a submission of a community whose
\* stored state is Backfilling (row present, indexed = false), whatever
\* invitation and removal messages handle_dms has drained.
C3_NoReportWhileBackfilling ==
    (Returned /\ Backfilling(SubnameOf(call.id))) => ~Emitted

\* C9: no failure raised while one submission is processed leaves
\* handle_submission and ends the run loop.
C9_LoopSurvives == ~call.escaped /\ pc # "crashed"

\* C4: a call whose try block raises nothing invokes do_report if and only
\* if reporting is enabled and the stored fingerprints of the submission's
\* community hold between 1 and 10 matches; no call invokes it otherwise, and
\* a report action is issued only by do_report: with 0 matches, more than 10
\* matches or reporting disabled none is issued.
C4_ReportCondition ==
    [][call'.path # "none" =>
          LET n == Cardinality(MatchingRows(media_storage, call'.id))
              cond == call'.report /\ 1 <= n /\ n <= 10
          IN  /\ call'.invoked => cond
              /\ call'.path = "ok" => (call'.invoked <=> cond)
              /\ reports' # reports => call'.invoked
              /\ (call'.path = "ok" /\ cond) =>
                     reports' = Append(reports, [id |-> call'.id, n |-> n, replied |-> TRUE])
              /\ ~cond => reports' = reports]_vars

\* a report issued with exactly 10 matches
C4_Witness ==
    /\ Returned /\ call.path = "ok" /\ Emitted
    /\ Len(call.matches) = 10

\* C5: a call that fingerprints a not yet seen submission and raises no error
\* appends its FingerprintRecord and a SubmissionRecord with processed = true
\* whatever the number of matches; with 11 or more matches no report is issued.
C5_StoredRegardless ==
    [][(call'.path = "ok" /\ ~call'.escaped) =>
          LET s == call'.id
              n == Cardinality(MatchingRows(media_storage, s))
          IN  /\ media_storage' =
                     Append(media_storage, [hash |-> HashOf(s), id |-> s, subname |-> SubnameOf(s)])
              /\ indexed_submissions' =
                     Append(indexed_submissions, [id |-> s, subname |-> SubnameOf(s), processed |-> TRUE])
              /\ n >= 11 => reports' = reports]_vars

\* reporting was enabled and 11 or more matches were found: nothing reported,
\* the fingerprint stored
C5_Witness ==
    /\ Returned /\ call.path = "ok" /\ call.report
    /\ Len(call.matches) >= 11
    /\ ~Emitted
    /\ FingerprintCount(call.id) = 1
    /\ HasRecord(call.id, TRUE)

\* C6: for two 64-bit hashes at Hamming distance d the similarity is
\* floor((64 - d) * 100 / 64), and a Match is produced iff similarity > 88,
\* which is iff d <= 7: d = 8 gives 87 and no match, d = 7 gives 89 and a match.
C6_ThresholdBoundary ==
    cmp.done =>
        LET d == Distance(cmp.a, cmp.b)
        IN  /\ cmp.similarity * 64 <= (64 - d) * 100
            /\ (64 - d) * 100 < (cmp.similarity + 1) * 64
            /\ cmp.match <=> cmp.similarity > 88
            /\ cmp.match <=> d <= 7
            /\ d = 8 => (cmp.similarity = 87 /\ ~cmp.match)
            /\ d = 7 => (cmp.similarity = 89 /\ cmp.match)

\* two hashes that differ in exactly 7 bits were compared and matched
C6_Witness == cmp.done /\ Distance(cmp.a, cmp.b) = 7 /\ cmp.match /\ cmp.a # {} /\ cmp.b # {}

\* C7: a community that becomes tracked starts Backfilling; a Backfilling
\* community is eventually Indexed unless it stops being tracked or an error
\* ends the loop; every submission of an Indexed community is handled by
\* scan_submissions with reporting enabled, and scan_new_sub is never started
\* for a community whose stored flag is true.
C7_Lifecycle ==
    /\ [][\A c \in Subnames : (~Tracked(c) /\ Tracked(c)') => Backfilling(c)']_vars
    /\ \A c \in Subnames : Backfilling(c) ~> (Indexed(c) \/ ~Tracked(c) \/ pc = "crashed")
    /\ [][(call'.path # "none" /\ Indexed(SubnameOf(call'.id))) =>
             (call'.report /\ pc = "scan")]_vars
    /\ [][(pc # "scan_new" /\ pc' = "scan_new") =>
             ~FlagIn(tbl_subreddits', sub'.subname, TRUE)]_vars

\* a community went through the backfill and a later scan of it reported a repost
C7_Witness ==
    /\ Indexed("a")
    /\ pc = "scan"
    /\ Returned /\ call.path = "ok" /\ call.report /\ Emitted
    /\ SubnameOf(call.id) = "a"

\* C8: when a submission is handled with reporting enabled and without error
\* while the only stored fingerprint of its community is that of another
\* submission, handled before without a report, with the identical hash, the
\* call finds exactly one match, against that submission with similarity 100,
\* issues exactly one report action, and both fingerprints are stored.
C8_EndToEnd ==
    [][LET s == call'.id
           rows == SelectSeq(media_storage, LAMBDA r : r.subname = SubnameOf(s))
       IN  (/\ call'.path = "ok" /\ call'.report /\ ~call'.escaped
            /\ Len(rows) = 1
            /\ rows[1].id # s
            /\ rows[1].hash = HashOf(s)
            /\ \A i \in DOMAIN reports : reports[i].id # rows[1].id)
           =>
           (/\ call'.matches = <<[hash |-> HashOf(s), id |-> rows[1].id,
                                  subname |-> SubnameOf(s), similarity |-> 100]>>
            /\ reports' = Append(reports, [id |-> s, n |-> 1, replied |-> TRUE])
            /\ CountIn(media_storage', rows[1].id) = 1
            /\ CountIn(media_storage', s) = 1)]_vars

\* submission 2 was reported as a repost of submission 1, of the same picture
C8_Witness ==
    /\ Returned /\ call.path = "ok" /\ call.report /\ call.id = 2
    /\ Len(call.matches) = 1 /\ call.matches[1].id = 1
    /\ reports = <<[id |-> 2, n |-> 1, replied |-> TRUE]>>
    /\ FingerprintCount(1) = 1 /\ FingerprintCount(2) = 1

\* C10: when an exception raised in the try block of handle_submission
\* (fingerprinting, match query, matching, reporting) is caught and the call
\* returns, the SubmissionRecord is written with processed = false, no
\* FingerprintRecord is stored for the submission, its id is in the dedup set;
\* and every later call for the id of such a record does nothing.
C10_FailedRecordedOnce ==
    [][/\ (call'.path = "caught" /\ ~call'.escaped) =>
             /\ indexed_submissions' =
                    Append(indexed_submissions,
                           [id |-> call'.id, subname |-> SubnameOf(call'.id), processed |-> FALSE])
             /\ CountIn(media_storage', call'.id) = 0
             /\ call'.id \in indexed_submission_ids'
       /\ (call'.path # "none" /\ HasRecord(call'.id, FALSE)) =>
             (call'.path = "skip" /\ store' = store)]_vars

\* a submission whose processing failed was yielded again and skipped
C10_Witness ==
    /\ Returned /\ call.path = "skip" /\ ~IsSelf(call.id)
    /\ HasRecord(call.id, FALSE)
    /\ RowCount(call.id) = 1
    /\ FingerprintCount(call.id) = 0

\* C11: in every pass of run(), whatever the number of tracked communities
\* (zero included, passes after the first included), handle_dms drains the
\* pending messages at least once. A pass that starts with no community in
\* the list never enters the for body, so its drain is the one at the top of
\* the while body: after that step no message is pending.
C11_DrainedEveryPass ==
    [][(pc = "while" /\ pc' = "for" /\ subreddits' = <<>>) => inbox' = <<>>]_vars

\* how often run() has taken the community from the list in the current pass
Visits(name) == Cardinality({i \in DOMAIN visited : visited[i] = name})

\* C12: in each pass of run() every tracked community is visited exactly once,
\* none skipped and none twice, also when handle_dms or scan_new_sub refreshed
\* the list during the pass: when the for loop ends, every community that has
\* a row was taken from the list once in this pass.
C12_EachVisitedOnce ==
    [][(pc = "for" /\ pc' = "while") =>
          \A name \in Subnames : Tracked(name) => Visits(name) = 1]_vars

\* the communities the invitations among the messages are for
Invited(msgs) == {msgs[i].subreddit : i \in {j \in DOMAIN msgs : msgs[j].kind = "invite"}}

\* the messages hold a removal notice
HasRemoval(msgs) == \E i \in DOMAIN msgs : msgs[i].kind = "removal"

\* C13: accept_invite for a community that already has a row leaves the
\* subreddits table unchanged (no second row, the indexed flag of an Indexed
\* community is not reset); for an untracked community it inserts exactly one
\* row with indexed = false. Stated for a drain of messages without a removal:
\* the rows that existed are unchanged and in place, every new row is the only
\* row of an invited community that had none and has indexed = false, and
\* every invited community has a row.
C13_InviteIdempotent ==
    [][(drained' # <<>> /\ ~HasRemoval(drained')) =>
          /\ Len(tbl_subreddits') >= Len(tbl_subreddits)
          /\ SubSeq(tbl_subreddits', 1, Len(tbl_subreddits)) = tbl_subreddits
          /\ \A i \in (Len(tbl_subreddits) + 1) .. Len(tbl_subreddits') :
                /\ ~tbl_subreddits'[i].indexed
                /\ tbl_subreddits'[i].name \in Invited(drained')
                /\ ~HasRow(tbl_subreddits, tbl_subreddits'[i].name)
                /\ \A j \in DOMAIN tbl_subreddits' :
                      tbl_subreddits'[j].name = tbl_subreddits'[i].name => j = i
          /\ \A name \in Invited(drained') : HasRow(tbl_subreddits', name)]_vars

\* an invitation for community a was handled and a is still Indexed: a row
\* accept_invite had just inserted would have indexed = false
C13_Witness ==
    /\ drained = <<[kind |-> "invite", subreddit |-> "a"]>>
    /\ tbl_subreddits = <<[name |-> "a", indexed |-> TRUE]>>

\* C14: every Match of a handle_submission call refers to a stored
\* fingerprint of the submission's own community; a fingerprint of another
\* community never produces a match or a report, even with an identical hash:
\* a report counts exactly the matching stored rows of the own community.
C14_OwnCommunityOnly ==
    /\ \A i \in DOMAIN call.matches :
          /\ call.matches[i].subname = SubnameOf(call.id)
          /\ \E j \in DOMAIN media_storage :
                /\ media_storage[j].id = call.matches[i].id
                /\ media_storage[j].hash = call.matches[i].hash
                /\ media_storage[j].subname = call.matches[i].subname
    /\ Emitted =>
          reports[Len(reports)].n =
              Cardinality({j \in MatchingRows(media_storage, call.id) :
                              media_storage[j].id # call.id})

\* a submission was checked for reposts while another community had stored
\* the very same hash: no match, no report
C14_Witness ==
    /\ Returned /\ call.report /\ call.path = "ok"
    /\ call.matches = <<>> /\ ~Emitted
    /\ \E j \in DOMAIN media_storage :
          /\ media_storage[j].subname # SubnameOf(call.id)
          /\ media_storage[j].hash = HashOf(call.id)

\* the ids that have a row in the indexed_submissions table
RecordedIds(tbl) == {tbl[i].id : i \in DOMAIN tbl}

\* C15: after startup and after every completed handle_submission call the
\* dedup set equals the set of ids that have a SubmissionRecord; every path
\* of handle_submission that handles a not-yet-seen, non-text submission
\* writes a record and adds the id to the set.
C15_DedupInSync ==
    /\ indexed_submission_ids = RecordedIds(indexed_submissions)
    /\ (Returned /\ call.path # "skip") =>
          /\ call.id \in RecordedIds(indexed_submissions)
          /\ call.id \in indexed_submission_ids

\* C16: every submission id has at most one FingerprintRecord in every
\* reachable state, also when the process stops inside handle_submission
\* (after the fingerprint write, before the record write) and is started
\* again with the dedup set loaded from the records.
C16_OneFingerprintPerId ==
    \A i, j \in DOMAIN media_storage :
        media_storage[i].id = media_storage[j].id => i = j

\* C17: scan_new_sub is started for a community only while it has a row with
\* indexed = false: never for an untracked community (its row deleted by a
\* removal drained in the same iteration), never for an indexed one. The
\* table does not change during the backfill, so this is stated of every
\* state inside scan_new_sub.
C17_BackfillOnlyWhileBackfilling == pc = "scan_new" => Backfilling(sub.subname)

\* C18: when do_report has issued the report and posted the reply and the hide
\* action then fails, nothing else changes: do_report returns normally and
\* handle_submission stores the fingerprint and the record with processed =
\* true, as it does when the hide action succeeds.
C18_HideFailureSwallowed ==
    [][(/\ call'.invoked
        /\ reports' = Append(reports, [id |-> call'.id, n |-> Len(call'.matches),
                                       replied |-> TRUE])
        /\ ~call'.hidden
        /\ ~call'.escaped) =>
          /\ call'.path = "ok"
          /\ media_storage' = Append(media_storage,
                                     [hash |-> HashOf(call'.id), id |-> call'.id,
                                      subname |-> SubnameOf(call'.id)])
          /\ indexed_submissions' = Append(indexed_submissions, SubmissionRow(call'.id, TRUE))
          /\ indexed_submission_ids' = indexed_submission_ids \cup {call'.id}
          /\ pc' = pc]_vars

\* a repost was reported and replied to, hiding it failed, and its fingerprint
\* and its record with processed = true are stored
C18_Witness ==
    /\ Returned /\ Emitted /\ reports[Len(reports)].replied
    /\ ~call.hidden
    /\ call.path = "ok"
    /\ HasRecord(call.id, TRUE)
    /\ FingerprintCount(call.id) = 1

\* C19: once handle_mod_removal has deleted a community's row, run() scans,
\* stores and reports no submission of that community until a later
\* accept_invite tracks it again; the iteration that drains the removal does
\* not go on to scan it: every submission that a handle_submission call of
\* the loop has processed and stored is of a community that has a row.
C19_UntrackedNotScanned ==
    (Returned /\ call.path = "ok") => Tracked(SubnameOf(call.id))

\* C20: in every state reached by completed handle_submission calls (any
\* report flag, failures of fetch, matching, report or fingerprint write
\* allowed) a SubmissionRecord has processed = true if and only if a
\* FingerprintRecord with its id exists, and no FingerprintRecord exists for
\* an id that has no SubmissionRecord.
C20_ProcessedIffFingerprint ==
    pc # "crashed" =>
        /\ \A i \in DOMAIN indexed_submissions :
              indexed_submissions[i].processed <=>
                  FingerprintCount(indexed_submissions[i].id) >= 1
        /\ \A j \in DOMAIN media_storage :
              HasSubmissionRow(indexed_submissions, media_storage[j].id)

\* after a call that stored a fingerprint and a call that failed: one record
\* with processed = true and a fingerprint, one with processed = false and none
C20_Witness ==
    /\ Returned /\ call.path = "caught"
    /\ HasRecord(call.id, FALSE) /\ FingerprintCount(call.id) = 0
    /\ \E s \in Submissions : HasRecord(s, TRUE) /\ FingerprintCount(s) = 1

===========================================================================
